---- MODULE Spec2Model ----
(***************************************************************************)
(* The startup-idea novelty visualizer: the App component's state, its     *)
(* loadAndIndexData effect, the handleAnalyze handler, the New Plot and    *)
(* screenshot handlers, and the pure helpers they use.                     *)
(*                                                                         *)
(* The repository holds two revisions of the App component:                *)
(*   "App"    src/App.tsx          fetches ./data.csv, has no per-row      *)
(*                                 try/catch, asks the remote assessor;    *)
(*   "Inline" src/unnamed/part_002 indexes the inlined REGISTRY_CSV,       *)
(*                                 skips a row whose embedding fails, and  *)
(*                                 titles the result by a local rule table.*)
(* The variable rev says which revision is running.                        *)
(*                                                                         *)
(* Numbers.  A JavaScript number is modelled as an extended rational       *)
(* [num, den] in lowest terms with den >= 0:  den = 0 stands for the       *)
(* IEEE values NaN (0/0), +Infinity (1/0) and -Infinity (-1/0).            *)
(* A Float32Array is a sequence of integers in units of 1/Scale, so a      *)
(* unit-normalized embedding is an integer vector of Euclidean norm Scale. *)
(* A string is a sequence of one-character strings.                        *)
(***************************************************************************)
EXTENDS Integers, Sequences, FiniteSets, TLC

VARIABLES
    rev,            \* which revision of the component runs
    pitch,          \* useState('')
    isAnalyzing,    \* useState(false)
    isCapturing,    \* useState(false)
    isReady,        \* useState(false)
    statusMessage,  \* useState('Initializing Engine...')
    modelProgress,  \* useState(0)
    result,         \* useState<AnalysisResult | null>(null)
    corpusPoints,   \* useState<ScatterPoint[]>([])
    extractorRef,   \* useRef(null): TRUE once the pipeline is stored
    databaseRef,    \* useRef<DBItem[]>([])
    load,           \* loadAndIndexData's position and locals
    query,          \* the in-flight handleAnalyze call's position and locals
    capture,        \* the in-flight saveScreenshot call's position
    alerts,         \* the alert() shown by the latest handleAnalyze call, if any
    prev,           \* history: what the latest scan of a query read and computed
    calc            \* the vector helpers applied on their own: inputs and outputs

vars == <<rev, pitch, isAnalyzing, isCapturing, isReady, statusMessage,
          modelProgress, result, corpusPoints, extractorRef, databaseRef,
          load, query, capture, alerts, prev, calc>>

----------------------------------------------------------------------------
(* Bounds of the model *)

\* the fetched data.csv has a header line and at most this many further lines
MaxCsvLines == 2
\* a vector handed to a helper on its own has at most this many components
MaxDim == 3

(* Program constants *)

\* pitch.length < 15
MinPitchLen == 15
\* r.trim().length > 5
MinRowLen == 5
\* (xSum / half) * 400
Gain == 400
\* Math.max(-100, Math.min(100, ...))
ClampLimit == 100
\* Math.max(1, Math.min(10, ...))
NoveltyMin == 1
NoveltyMax == 10
\* the integer that stands for the unit norm of a { normalize: true } embedding:
\* a Float32 component c of the model is the number c / Scale
Scale == 5

----------------------------------------------------------------------------
(* JavaScript numbers as extended rationals *)

Abs(n) == IF n < 0 THEN -n ELSE n

Sign(n) == IF n < 0 THEN -1 ELSE IF n > 0 THEN 1 ELSE 0

RECURSIVE GCD(_, _)
GCD(a, b) == IF b = 0 THEN a ELSE GCD(b, a % b)

\* n / d for d >= 0, as IEEE division gives it (0/0 = NaN, n/0 = +-Infinity)
Div(n, d) ==
    IF d = 0 THEN [num |-> Sign(n), den |-> 0]
    ELSE LET g == GCD(Abs(n), d) IN [num |-> n \div g, den |-> d \div g]

Num(n) == [num |-> n, den |-> 1]

NaN == [num |-> 0, den |-> 0]

IsNaN(r) == r = NaN

\* r < s and r > s as IEEE compares: false whenever a side is NaN
Less(r, s) ==
    /\ ~IsNaN(r) /\ ~IsNaN(s)
    /\ r # s
    /\ IF r.den = 0 /\ s.den = 0 THEN r.num < s.num
       ELSE r.num * s.den < s.num * r.den

Greater(r, s) == Less(s, r)

\* Math.min(a, b), Math.max(a, b): NaN if either argument is NaN
MathMin(a, b) == IF IsNaN(a) \/ IsNaN(b) THEN NaN ELSE IF Less(b, a) THEN b ELSE a

MathMax(a, b) == IF IsNaN(a) \/ IsNaN(b) THEN NaN ELSE IF Greater(b, a) THEN b ELSE a

\* Math.round of a finite number: the nearest integer, halves rounding up
MathRound(r) == (2 * r.num + r.den) \div (2 * r.den)

\* Math.sqrt on the squared magnitudes the model meets (perfect squares
\* included exactly, the others rounded down)
MathSqrt(n) == CHOOSE r \in 0..n : r * r <= n /\ n < (r + 1) * (r + 1)

----------------------------------------------------------------------------
(* Strings *)

\* the string of n copies of the character c
Rep(c, n) == [k \in 1..n |-> c]

IsSpace(c) == c = " "

\* String.prototype.trim
RECURSIVE TrimLeft(_)
TrimLeft(s) == IF s # <<>> /\ IsSpace(Head(s)) THEN TrimLeft(Tail(s)) ELSE s

RECURSIVE TrimRight(_)
TrimRight(s) ==
    IF s # <<>> /\ IsSpace(s[Len(s)]) THEN TrimRight(SubSeq(s, 1, Len(s) - 1)) ELSE s

Trim(s) == TrimRight(TrimLeft(s))

\* s.replace(/^"|"$/g, ''): one quote at the very start and one at the very end
StripQuotes(s) ==
    LET a == IF s # <<>> /\ Head(s) = "\"" THEN Tail(s) ELSE s
    IN  IF a # <<>> /\ a[Len(a)] = "\"" THEN SubSeq(a, 1, Len(a) - 1) ELSE a

----------------------------------------------------------------------------
(* Vector math *)

RECURSIVE SumRange(_, _, _)
\* vector[from] + ... + vector[to - 1], indices counted from 0 as in the source
SumRange(vector, from, to) ==
    IF from >= to THEN 0 ELSE vector[from + 1] + SumRange(vector, from + 1, to)

RECURSIVE Dot(_, _, _)
\* the sum over i < n of a[i] * b[i]
Dot(a, b, n) == IF n = 0 THEN 0 ELSE a[n] * b[n] + Dot(a, b, n - 1)

\* cosineSimilarity without the mag === 0 test
cosineSimilarityNoGuard(a, b) ==
    LET dotProduct == Dot(a, b, Len(a))
        mA == Dot(a, a, Len(a))
        mB == Dot(b, b, Len(a))
        mag == MathSqrt(mA) * MathSqrt(mB)
    IN  Div(dotProduct, mag)

\* dotProduct / (sqrt(mA) * sqrt(mB)), and 0 when that magnitude is 0
cosineSimilarity(a, b) ==
    LET dotProduct == Dot(a, b, Len(a))
        mA == Dot(a, a, Len(a))
        mB == Dot(b, b, Len(a))
        mag == MathSqrt(mA) * MathSqrt(mB)
    IN  IF mag = 0 THEN Num(0) ELSE Div(dotProduct, mag)

Clamp(r) == MathMax(Num(-ClampLimit), MathMin(Num(ClampLimit), r))

\* getPositionFromVector with ySum divided by the length of the second half
getPositionFromVectorOwnLength(vector) ==
    LET half == Len(vector) \div 2
        xSum == SumRange(vector, 0, half)
        ySum == SumRange(vector, half, Len(vector))
    IN  [x |-> Clamp(Div(xSum * Gain, Scale * half)),
         y |-> Clamp(Div(ySum * Gain, Scale * (Len(vector) - half)))]

\* half = Math.floor(vector.length / 2); both sums are divided by half
getPositionFromVector(vector) ==
    LET half == Len(vector) \div 2
        xSum == SumRange(vector, 0, half)
        ySum == SumRange(vector, half, Len(vector))
    IN  [x |-> Clamp(Div(xSum * Gain, Scale * half)),
         y |-> Clamp(Div(ySum * Gain, Scale * half))]

----------------------------------------------------------------------------
(* The embedder, the corpus sources and the inputs *)

\* extractorRef.current(text, { pooling: 'mean', normalize: true }).data when the
\* call succeeds: a fixed function of the text, of norm Scale.  The table gives
\* cosines of 1, 24/25, 22/25, 4/5, 3/5, 11/25, 2/5, 0 and negative ones.
Embed(text) ==
    LET c == IF text = <<>> THEN "" ELSE Head(text)
    IN  CASE c = "a" -> <<3, 4, 0, 0>>
          [] c = "b" -> <<4, 3, 0, 0>>
          [] c = "c" -> <<-3, -4, 0, 0>>
          [] c = "d" -> <<0, 0, 3, 4>>
          [] c = "e" -> <<2, 1, 2, 4>>
          [] OTHER   -> <<5, 0, 0, 0>>

Header == <<"p", "i", "t", "c", "h">>

\* REGISTRY_CSV.split('\n'), abridged to three of its ten rows
REGISTRY_CSV == <<Header, Rep("a", 15), Rep("b", 20), Rep("d", 18)>>

\* a four-character text between double quotes: six characters as a line
QuotedShortLine == <<"\"">> \o Rep("e", 4) \o <<"\"">>

\* the lines a fetched data.csv may hold after its header
CorpusLines == {Rep("a", 15), Rep("b", 6), Rep("d", 5), QuotedShortLine}

RECURSIVE SeqsUpTo(_, _)
\* the sequences over S of length at most n
SeqsUpTo(S, n) ==
    IF n = 0 THEN {<<>>}
    ELSE LET shorter == SeqsUpTo(S, n - 1)
         IN  shorter \cup {Append(q, e) : q \in shorter, e \in S}

\* (await response.text()).split('\n') for the files the model fetches
FetchedCsvs == {<<Header>> \o b : b \in SeqsUpTo(CorpusLines, MaxCsvLines)}

\* what the user may type into the textarea
Pitches == {<<>>, Rep("a", MinPitchLen - 1), Rep("a", MinPitchLen),
            Rep("c", MinPitchLen), Rep("e", MinPitchLen + 1), Rep("x", MinPitchLen)}

\* data.progress values the pipeline's progress_callback reports
ProgressValues == {50}

----------------------------------------------------------------------------
(* Values of the state *)

NULL == [null |-> TRUE]

Status(text) == [text |-> text, pct |-> -1]

IndexingStatus(pct) == [text |-> "Indexing: %", pct |-> pct]

LoadIdle ==
    [pc |-> "init", rows |-> <<>>, i |-> 0, text |-> <<>>,
     indexedItems |-> <<>>, points |-> <<>>, pct |-> -1, skipped |-> {}]

QueryIdle ==
    [pc |-> "idle", pitch |-> <<>>, userPos |-> [x |-> Num(0), y |-> Num(0)],
     maxSim |-> Num(0), novelty |-> 0]

Revisions == {"App", "Inline"}

\* no scan recorded yet
NoRun ==
    [pitch |-> <<>>, db |-> <<>>, x |-> Num(0), y |-> Num(0), novelty |-> 0,
     again |-> FALSE]

\* no helper applied
CalcIdle ==
    [op |-> "none", a |-> <<>>, b |-> <<>>, sim |-> Num(0),
     pos |-> [x |-> Num(0), y |-> Num(0)]]

\* the component's state after construction
AppInit ==
    /\ rev \in Revisions
    /\ pitch = <<>>
    /\ isAnalyzing = FALSE
    /\ isCapturing = FALSE
    /\ isReady = FALSE
    /\ statusMessage = Status("Initializing Engine...")
    /\ modelProgress = 0
    /\ result = NULL
    /\ corpusPoints = <<>>
    /\ extractorRef = FALSE
    /\ databaseRef = <<>>
    /\ load = LoadIdle
    /\ query = QueryIdle
    /\ capture = "idle"
    /\ alerts = "none"

Init ==
    /\ AppInit
    /\ prev = NoRun
    /\ calc = CalcIdle

----------------------------------------------------------------------------
(* loadAndIndexData *)

\* csvText.split('\n').slice(1).filter(r => r.trim().length > 5)
RowsOf(lines) == SelectSeq(Tail(lines), LAMBDA r : Len(Trim(r)) > MinRowLen)

\* rows[i].replace(/^"|"$/g, '').trim()
RowText(row) == Trim(StripQuotes(row))

\* LoopDone with the loop written as i < rows.length - 1
LoopDoneEarly(i, rows) == i >= Len(rows) - 1

\* the loop condition i < rows.length, negated
LoopDone(i, rows) == i >= Len(rows)

\* if (i % 2 === 0 || i === rows.length - 1) setStatusMessage(`Indexing: ...%`)
ProgressStatus(i, rows, old) ==
    IF i % 2 = 0 \/ i = Len(rows) - 1
    THEN IndexingStatus(MathRound(Div((i + 1) * 100, Len(rows))))
    ELSE old

\* EffectMayRun with a callback whose identity changes once the load is done,
\* so that the effect runs again
EffectMayRunAgain(l) == l.pc \in {"init", "done"}

\* useEffect(() => { loadAndIndexData(); }, [loadAndIndexData]) with a
\* useCallback(..., []) that never changes: the effect runs once, after mount
EffectMayRun(l) == l.pc = "init"

\* the catch of loadAndIndexData: only the status message changes
LoadCatch ==
    /\ statusMessage' = Status("Error")
    /\ load' = [load EXCEPT !.pc = "failed"]

\* The loop from iteration i on, up to its next await: either the embedder is
\* called for rows[i], or the loop is over and the index is published.  status
\* is the message the run has set last; load.pct keeps the percentage of the
\* latest `Indexing: ...%` message the loop has set (-1 before the first),
\* also when 'System Ready' replaces that message within the same run, and
\* load.skipped the indices of the rows the inner catch has skipped.
LoopFrom(i, rows, items, pts, status, skipped) ==
    IF LoopDone(i, rows)
    THEN /\ databaseRef' = items
         /\ corpusPoints' = pts
         /\ isReady' = TRUE
         /\ statusMessage' = Status("System Ready")
         /\ load' = [pc |-> "done", rows |-> rows, i |-> i, text |-> <<>>,
                     indexedItems |-> items, points |-> pts, pct |-> status.pct,
                     skipped |-> skipped]
    ELSE /\ statusMessage' = status
         /\ load' = [pc |-> "row", rows |-> rows, i |-> i, text |-> RowText(rows[i + 1]),
                     indexedItems |-> items, points |-> pts, pct |-> status.pct,
                     skipped |-> skipped]
         /\ UNCHANGED <<databaseRef, corpusPoints, isReady>>

LoadStart ==
    /\ EffectMayRun(load)
    /\ statusMessage' = Status("Loading Semantic Model...")
    /\ load' = [LoadIdle EXCEPT !.pc = "import"]
    /\ UNCHANGED <<calc, prev, rev, pitch, isAnalyzing, isCapturing, isReady, modelProgress,
                   result, corpusPoints, extractorRef, databaseRef, query,
                   capture, alerts>>

\* await import('@xenova/transformers') resolves; pipeline(...) is called
ImportDone ==
    /\ load.pc = "import"
    /\ load' = [load EXCEPT !.pc = "pipeline"]
    /\ UNCHANGED <<calc, prev, rev, pitch, isAnalyzing, isCapturing, isReady, statusMessage,
                   modelProgress, result, corpusPoints, extractorRef, databaseRef,
                   query, capture, alerts>>

\* progress_callback: if (data.status === 'progress') setModelProgress(data.progress)
ProgressCallback ==
    /\ load.pc = "pipeline"
    /\ \E p \in ProgressValues : modelProgress' = p
    /\ UNCHANGED <<calc, prev, rev, pitch, isAnalyzing, isCapturing, isReady, statusMessage,
                   result, corpusPoints, extractorRef, databaseRef, load, query,
                   capture, alerts>>

\* await pipeline(...) resolves.  App goes on to fetch ./data.csv; Inline splits
\* REGISTRY_CSV and enters the loop.
PipelineDone ==
    /\ load.pc = "pipeline"
    /\ extractorRef' = TRUE
    /\ modelProgress' = 100
    /\ IF rev = "App"
       THEN /\ statusMessage' = Status("Fetching Registry...")
            /\ load' = [load EXCEPT !.pc = "fetch"]
            /\ UNCHANGED <<databaseRef, corpusPoints, isReady>>
       ELSE LoopFrom(0, RowsOf(REGISTRY_CSV), <<>>, <<>>, Status("Indexing Registry..."), {})
    /\ UNCHANGED <<calc, prev, rev, pitch, isAnalyzing, isCapturing, result, query, capture, alerts>>

\* await fetch('./data.csv') resolves with response.ok; response.text() is awaited
FetchDone ==
    /\ load.pc = "fetch"
    /\ load' = [load EXCEPT !.pc = "text"]
    /\ UNCHANGED <<calc, prev, rev, pitch, isAnalyzing, isCapturing, isReady, statusMessage,
                   modelProgress, result, corpusPoints, extractorRef, databaseRef,
                   query, capture, alerts>>

\* await response.text() resolves; the rows are filtered and the loop entered
TextDone ==
    /\ load.pc = "text"
    /\ \E lines \in FetchedCsvs :
           LoopFrom(0, RowsOf(lines), <<>>, <<>>, Status("Indexing Registry..."), {})
    /\ UNCHANGED <<calc, prev, rev, pitch, isAnalyzing, isCapturing, modelProgress, result,
                   extractorRef, query, capture, alerts>>

\* an await before the loop rejects (import, pipeline, fetch, response.text()),
\* or the response is not ok: the outer catch
LoadFail ==
    /\ load.pc \in {"import", "pipeline", "fetch", "text"}
    /\ LoadCatch
    /\ UNCHANGED <<calc, prev, rev, pitch, isAnalyzing, isCapturing, isReady, modelProgress,
                   result, corpusPoints, extractorRef, databaseRef, query,
                   capture, alerts>>

\* the embedder call for rows[i] resolves: the entry and its point are pushed
RowEmbedded ==
    /\ load.pc = "row"
    /\ LET vector == Embed(load.text)
           pos == getPositionFromVector(vector)
           item == [pitch |-> load.text, embedding |-> vector, x |-> pos.x, y |-> pos.y]
           point == [id |-> <<"item-", load.i>>, x |-> pos.x, y |-> pos.y, isUser |-> FALSE]
       IN  LoopFrom(load.i + 1, load.rows, Append(load.indexedItems, item),
                    Append(load.points, point),
                    ProgressStatus(load.i, load.rows, statusMessage), load.skipped)
    /\ UNCHANGED <<calc, prev, rev, pitch, isAnalyzing, isCapturing, modelProgress, result,
                   extractorRef, query, capture, alerts>>

\* RowEmbedFailed with a point pushed for the skipped row all the same
RowEmbedFailedKeepsPoint ==
    /\ load.pc = "row"
    /\ IF rev = "Inline"
       THEN LoopFrom(load.i + 1, load.rows, load.indexedItems,
                     Append(load.points, [id |-> <<"item-", load.i>>, x |-> Num(0),
                                          y |-> Num(0), isUser |-> FALSE]),
                     ProgressStatus(load.i, load.rows, statusMessage),
                     load.skipped \cup {load.i})
       ELSE /\ LoadCatch
            /\ UNCHANGED <<databaseRef, corpusPoints, isReady>>
    /\ UNCHANGED <<calc, prev, rev, pitch, isAnalyzing, isCapturing, modelProgress, result,
                   extractorRef, query, capture, alerts>>

\* the embedder call for rows[i] rejects.  Inline: the inner catch skips the row
\* and the loop goes on.  App: there is no inner try, the outer catch ends the load.
RowEmbedFailed ==
    /\ load.pc = "row"
    /\ IF rev = "Inline"
       THEN LoopFrom(load.i + 1, load.rows, load.indexedItems, load.points,
                     ProgressStatus(load.i, load.rows, statusMessage),
                     load.skipped \cup {load.i})
       ELSE /\ LoadCatch
            /\ UNCHANGED <<databaseRef, corpusPoints, isReady>>
    /\ UNCHANGED <<calc, prev, rev, pitch, isAnalyzing, isCapturing, modelProgress, result,
                   extractorRef, query, capture, alerts>>

loadAndIndexData ==
    \/ LoadStart
    \/ ImportDone
    \/ ProgressCallback
    \/ PipelineDone
    \/ FetchDone
    \/ TextDone
    \/ LoadFail
    \/ RowEmbedded
    \/ RowEmbedFailed

----------------------------------------------------------------------------
(* handleAnalyze *)

\* PitchInvalid with the length compared to one less
PitchInvalidOffByOne(p) == p = <<>> \/ Len(p) < MinPitchLen - 1

\* if (!pitch || pitch.length < 15)
PitchInvalid(p) == p = <<>> \/ Len(p) < MinPitchLen

RECURSIVE ScanDatabaseSkipLast(_, _, _, _)
\* ScanDatabase as a loop that stops one entry short
ScanDatabaseSkipLast(db, userVector, k, maxSim) ==
    IF k >= Len(db) THEN maxSim
    ELSE LET sim == cosineSimilarity(userVector, db[k].embedding)
         IN  ScanDatabaseSkipLast(db, userVector, k + 1,
                                  IF Greater(sim, maxSim) THEN sim ELSE maxSim)

RECURSIVE ScanDatabase(_, _, _, _)
\* databaseRef.current.forEach(item => { ... if (sim > maxSim) maxSim = sim }),
\* from the k-th entry on, with the running maximum maxSim
ScanDatabase(db, userVector, k, maxSim) ==
    IF k > Len(db) THEN maxSim
    ELSE LET sim == cosineSimilarity(userVector, db[k].embedding)
         IN  ScanDatabase(db, userVector, k + 1,
                          IF Greater(sim, maxSim) THEN sim ELSE maxSim)

\* MaxSimOf with the running maximum started at -1, the least cosine
MaxSimOfFromMinusOne(db, userVector) == ScanDatabase(db, userVector, 1, Num(-1))

\* let maxSim = 0; databaseRef.current.forEach(...)
MaxSimOf(db, userVector) == ScanDatabase(db, userVector, 1, Num(0))

IntMin(a, b) == IF a < b THEN a ELSE b

IntMax(a, b) == IF a > b THEN a ELSE b

\* (1 - maxSim) * 10
NoveltyRaw(maxSim) == Div((maxSim.den - maxSim.num) * 10, maxSim.den)

\* NoveltyOf without the Math.max(1, ...)
NoveltyOfNoFloor(maxSim) == IntMin(NoveltyMax, MathRound(NoveltyRaw(maxSim)))

\* Math.max(1, Math.min(10, Math.round((1 - maxSim) * 10)))
NoveltyOf(maxSim) == IntMax(NoveltyMin, IntMin(NoveltyMax, MathRound(NoveltyRaw(maxSim))))

\* Inline's rule table: title and desc from maxSim
RuleTable(maxSim) ==
    IF Greater(maxSim, Div(4, 5))
    THEN [title |-> "Highly Saturated", description |-> "Extremely high similarity detected."]
    ELSE IF Less(maxSim, Div(2, 5))
    THEN [title |-> "High Innovation Area", description |-> "Your idea is semantically distinct."]
    ELSE [title |-> "Moderate Novelty", description |-> "Your pitch shows some unique angles."]

\* getDetailedAssessment's catch, taken when JSON.parse throws
AssessmentFallback(maxSimilarity) ==
    [title |-> IF Less(maxSimilarity, Div(1, 2)) THEN "Unique Positioning"
               ELSE "Moderate Similarity",
     description |-> "Analysis complete."]

\* How the remote call may end once generateContent has resolved:
\*   "json"       response.text is the JSON object the schema asks for
\*   "empty"      response.text is missing or blank, so "{}" is parsed
\*   "unparsable" JSON.parse throws
RemoteReplies == {"json", "empty", "unparsable"}

\* what getDetailedAssessment returns for a reply
getDetailedAssessment(reply, maxSimilarity) ==
    CASE reply = "json"  -> [title |-> "<remote title>", description |-> "<remote description>"]
      [] reply = "empty" -> [title |-> "undefined", description |-> "undefined"]
      [] OTHER           -> AssessmentFallback(maxSimilarity)

\* the AnalysisResult passed to setResult
ResultOf(userPos, novelty, maxSim, a) ==
    [x |-> userPos.x, y |-> userPos.y, noveltyScore |-> novelty,
     localSimilarityScore |-> maxSim,
     assessmentTitle |-> a.title, assessmentDescription |-> a.description]

\* AnalyzeEnabled for a button without the disabled attribute
AnalyzeEnabledAlways == TRUE

\* the Run Comparison / Compare Idea button: disabled={isAnalyzing}
AnalyzeEnabled == ~isAnalyzing

\* alert(...) of the length check
InvalidInputAlert ==
    IF rev = "App" THEN "Please provide at least 15 characters describing your idea."
    ELSE "Please provide a more descriptive pitch (min 15 chars)."

\* alert(...) of the catch
AnalysisErrorAlert ==
    IF rev = "App" THEN "Analysis error. Please check your connection and try again."
    ELSE "Analysis error."

\* AnalyzeCatch without the alert
AnalyzeCatchSilent ==
    /\ alerts' = "none"
    /\ isAnalyzing' = FALSE
    /\ query' = QueryIdle

\* the catch and finally of handleAnalyze
AnalyzeCatch ==
    /\ alerts' = AnalysisErrorAlert
    /\ isAnalyzing' = FALSE
    /\ query' = QueryIdle

\* the textarea's onChange
SetPitch ==
    /\ \E p \in Pitches : pitch' = p
    /\ UNCHANGED <<calc, prev, rev, isAnalyzing, isCapturing, isReady, statusMessage,
                   modelProgress, result, corpusPoints, extractorRef, databaseRef,
                   load, query, capture, alerts>>

\* the click with a pitch that is too short: alert and return
AnalyzeRejected ==
    /\ AnalyzeEnabled
    /\ PitchInvalid(pitch)
    /\ alerts' = InvalidInputAlert
    /\ UNCHANGED <<calc, prev, rev, pitch, isAnalyzing, isCapturing, isReady, statusMessage,
                   modelProgress, result, corpusPoints, extractorRef, databaseRef,
                   load, query, capture>>

\* the click before the pipeline is stored: extractorRef.current is null, the
\* call throws a TypeError inside the try, and catch and finally run at once
AnalyzeNoExtractor ==
    /\ AnalyzeEnabled
    /\ ~PitchInvalid(pitch)
    /\ ~extractorRef
    /\ result' = NULL
    /\ AnalyzeCatch
    /\ UNCHANGED <<calc, prev, rev, pitch, isCapturing, isReady, statusMessage, modelProgress,
                   corpusPoints, extractorRef, databaseRef, load, capture>>

\* the click with the pipeline stored: the embedder is called with the pitch
AnalyzeStart ==
    /\ AnalyzeEnabled
    /\ ~PitchInvalid(pitch)
    /\ extractorRef
    /\ isAnalyzing' = TRUE
    /\ result' = NULL
    /\ alerts' = "none"
    /\ query' = [QueryIdle EXCEPT !.pc = "embed", !.pitch = pitch]
    /\ UNCHANGED <<calc, prev, rev, pitch, isCapturing, isReady, statusMessage, modelProgress,
                   corpusPoints, extractorRef, databaseRef, load, capture>>

\* The history of scans: the latest scan's text, the index it read and what
\* it computed, and whether the scan before it was of the same text over the
\* same index (again).
Recorded(old, text, db, userPos, novelty) ==
    [pitch |-> text, db |-> db, x |-> userPos.x, y |-> userPos.y, novelty |-> novelty,
     again |-> old.novelty # 0 /\ old.pitch = text /\ old.db = db]

\* QueryText read from the textarea's state when the embedding resolves
QueryTextLive == pitch

\* the pitch the running call closed over: extractorRef.current(pitch, ...)
QueryText == query.pitch

\* the embedder call resolves: position, scan, novelty; then Inline sets the
\* result from its rule table, App calls getDetailedAssessment and awaits it
QueryEmbedded ==
    /\ query.pc = "embed"
    /\ LET userVector == Embed(QueryText)
           userPos == getPositionFromVector(userVector)
           maxSim == MaxSimOf(databaseRef, userVector)
           novelty == NoveltyOf(maxSim)
       IN  /\ IF rev = "Inline"
              THEN /\ result' = ResultOf(userPos, novelty, maxSim, RuleTable(maxSim))
                   /\ isAnalyzing' = FALSE
                   /\ query' = QueryIdle
              ELSE /\ query' = [query EXCEPT !.pc = "assess", !.userPos = userPos,
                                             !.maxSim = maxSim, !.novelty = novelty]
                   /\ UNCHANGED <<result, isAnalyzing>>
           /\ prev' = Recorded(prev, query.pitch, databaseRef, userPos, novelty)
    /\ UNCHANGED <<calc, rev, pitch, isCapturing, isReady, statusMessage, modelProgress,
                   corpusPoints, extractorRef, databaseRef, load, capture, alerts>>

\* the embedder call rejects
QueryEmbedFailed ==
    /\ query.pc = "embed"
    /\ AnalyzeCatch
    /\ UNCHANGED <<calc, prev, rev, pitch, isCapturing, isReady, statusMessage, modelProgress,
                   result, corpusPoints, extractorRef, databaseRef, load, capture>>

\* generateContent resolved and getDetailedAssessment returns: setResult
AssessmentReturned ==
    /\ query.pc = "assess"
    /\ \E reply \in RemoteReplies :
           result' = ResultOf(query.userPos, query.novelty, query.maxSim,
                              getDetailedAssessment(reply, query.maxSim))
    /\ isAnalyzing' = FALSE
    /\ query' = QueryIdle
    /\ UNCHANGED <<calc, prev, rev, pitch, isCapturing, isReady, statusMessage, modelProgress,
                   corpusPoints, extractorRef, databaseRef, load, capture, alerts>>

\* await ai.models.generateContent(...) rejects: it stands outside the try of
\* getDetailedAssessment, so the rejection reaches the catch of handleAnalyze
AssessmentRejected ==
    /\ query.pc = "assess"
    /\ AnalyzeCatch
    /\ UNCHANGED <<calc, prev, rev, pitch, isCapturing, isReady, statusMessage, modelProgress,
                   result, corpusPoints, extractorRef, databaseRef, load, capture>>

handleAnalyze ==
    \/ AnalyzeRejected
    \/ AnalyzeNoExtractor
    \/ AnalyzeStart
    \/ QueryEmbedded
    \/ QueryEmbedFailed
    \/ AssessmentReturned
    \/ AssessmentRejected

----------------------------------------------------------------------------
(* New Plot and saveScreenshot *)

\* onClick={() => { setPitch(''); setResult(null); }}, rendered while result is set
NewPlot ==
    /\ result # NULL
    /\ pitch' = <<>>
    /\ result' = NULL
    /\ UNCHANGED <<calc, prev, rev, isAnalyzing, isCapturing, isReady, statusMessage,
                   modelProgress, corpusPoints, extractorRef, databaseRef, load,
                   query, capture, alerts>>

\* the Export button (rendered while result is set, disabled={isCapturing}):
\* App waits 150 ms before toPng, Inline calls toPng at once
ScreenshotStart ==
    /\ result # NULL
    /\ ~isCapturing
    /\ isCapturing' = TRUE
    /\ capture' = IF rev = "App" THEN "timer" ELSE "toPng"
    /\ UNCHANGED <<calc, prev, rev, pitch, isAnalyzing, isReady, statusMessage, modelProgress,
                   result, corpusPoints, extractorRef, databaseRef, load, query,
                   alerts>>

\* await new Promise(r => setTimeout(r, 150)) resolves; toPng is called
ScreenshotTimer ==
    /\ capture = "timer"
    /\ capture' = "toPng"
    /\ UNCHANGED <<calc, prev, rev, pitch, isAnalyzing, isCapturing, isReady, statusMessage,
                   modelProgress, result, corpusPoints, extractorRef, databaseRef,
                   load, query, alerts>>

\* toPng resolves (the link is clicked) or rejects (alert): finally either way
ScreenshotEnd ==
    /\ capture = "toPng"
    /\ capture' = "idle"
    /\ isCapturing' = FALSE
    /\ UNCHANGED <<calc, prev, rev, pitch, isAnalyzing, isReady, statusMessage, modelProgress,
                   result, corpusPoints, extractorRef, databaseRef, load, query,
                   alerts>>

saveScreenshot ==
    \/ ScreenshotStart
    \/ ScreenshotTimer
    \/ ScreenshotEnd

----------------------------------------------------------------------------

Next ==
    \/ loadAndIndexData
    \/ SetPitch
    \/ handleAnalyze
    \/ NewPlot
    \/ saveScreenshot

Spec == Init /\ [][Next]_vars

\* The pitches typed in the runs checked for termination: one too short, two
\* long enough with different embeddings
LivePitches == {Rep("a", MinPitchLen - 1), Rep("a", MinPitchLen), Rep("c", MinPitchLen)}

\* SetPitch with one of LivePitches typed
SetPitchLive == SetPitch /\ pitch' \in LivePitches

\* TextDone for a data.csv of at most one row that passes the filter
TextDoneLive == TextDone /\ Len(load'.rows) <= 1

NextLive ==
    \/ LoadStart
    \/ ImportDone
    \/ ProgressCallback
    \/ PipelineDone
    \/ FetchDone
    \/ TextDoneLive
    \/ LoadFail
    \/ RowEmbedded
    \/ RowEmbedFailed
    \/ SetPitchLive
    \/ handleAnalyze
    \/ NewPlot
    \/ saveScreenshot

\* The component with every awaited call of handleAnalyze settling: the
\* embedder call resolves or rejects, and so does the remote assessment; the
\* continuation of an await runs once its promise has settled.
SpecLive ==
    /\ Init
    /\ [][NextLive]_vars
    /\ WF_vars(QueryEmbedFailed \/ QueryEmbedded)
    /\ WF_vars(AssessmentRejected \/ AssessmentReturned)

----------------------------------------------------------------------------
(* The vector helpers on their own: cosineSimilarity and getPositionFromVector
   applied to arbitrary vectors, not only to the embedder's outputs *)

\* the components of the vectors handed to getPositionFromVector and, as a,
\* to cosineSimilarity, in units of 1 / Scale
Components == {-2, -1, 0, 1, 2}

\* the components of the second argument of cosineSimilarity
OtherComponents == {-1, 0, 1}

\* the vectors over S with at most MaxDim components, the empty one included
Vectors(S) == UNION {[1..n -> S] : n \in 0..MaxDim}

InitMath ==
    /\ AppInit
    /\ prev = NoRun
    /\ \E a \in Vectors(Components) :
       \E b \in {v \in Vectors(OtherComponents) : Len(v) = Len(a)} :
           calc = [CalcIdle EXCEPT !.a = a, !.b = b]

\* cosineSimilarity(a, b) is called
CalcCosine ==
    /\ calc' = [calc EXCEPT !.op = "cosineSimilarity",
                            !.sim = cosineSimilarity(calc.a, calc.b)]
    /\ UNCHANGED <<prev, rev, pitch, isAnalyzing, isCapturing, isReady, statusMessage,
                   modelProgress, result, corpusPoints, extractorRef, databaseRef,
                   load, query, capture, alerts>>

\* getPositionFromVector(a) is called
CalcPosition ==
    /\ calc' = [calc EXCEPT !.op = "getPositionFromVector",
                            !.pos = getPositionFromVector(calc.a)]
    /\ UNCHANGED <<prev, rev, pitch, isAnalyzing, isCapturing, isReady, statusMessage,
                   modelProgress, result, corpusPoints, extractorRef, databaseRef,
                   load, query, capture, alerts>>

NextMath ==
    \/ CalcCosine
    \/ CalcPosition

SpecMath == InitMath /\ [][NextMath]_vars

----------------------------------------------------------------------------
(* Vocabulary of the claims *)

InvalidInputAlerts ==
    {"Please provide at least 15 characters describing your idea.",
     "Please provide a more descriptive pitch (min 15 chars)."}

AnalysisErrorAlerts ==
    {"Analysis error. Please check your connection and try again.", "Analysis error."}

\* the titles of the banded rule table of the specification, from the thresholds
BandTitle(sim) ==
    IF sim.num * 5 > 4 * sim.den THEN "Highly Saturated"
    ELSE IF sim.num * 5 < 2 * sim.den THEN "High Innovation Area"
    ELSE "Moderate Novelty"

\* the cosines between a query vector and the entries of an index
Cosines(db, v) == {cosineSimilarity(v, db[k].embedding) : k \in 1..Len(db)}

\* the largest element of a non-empty set of finite numbers
Largest(S) == CHOOSE m \in S : \A r \in S : r.num * m.den <= m.num * r.den

\* this step is the one in which the running query scans the index
ScanStep == query.pc = "embed" /\ (query'.pc = "assess" \/ result' # NULL)

\* the similarity the scan of this step arrived at
ScannedSim == IF query'.pc = "assess" THEN query'.maxSim ELSE result'.localSimilarityScore

----------------------------------------------------------------------------
(* C1: readiness gate.  A query started while the index is not ready fails  *)
(* with a not-ready error and produces no result; so while isReady is false *)
(* no result exists.  The code has no such gate: handleAnalyze never reads  *)
(* isReady, and this is violated.                                           *)
C1_NoResultBeforeReady == ~isReady => result = NULL

(* C2: when the remote assessment fails, handleAnalyze still sets a result  *)
(* titled by the local rule table and shows no error.  Stated on the step   *)
(* that ends the assessment: there is a result, no alert, and the title is  *)
(* the remote one or the rule table's.  Violated: a rejected call ends in   *)
(* the alert with no result, an unparsable reply in another table's title.  *)
C2_AssessmentFailureRecovered ==
    [][(query.pc = "assess" /\ query'.pc = "idle") =>
          /\ alerts' = "none"
          /\ result' # NULL
          /\ result'.x = query.userPos.x /\ result'.y = query.userPos.y
          /\ result'.localSimilarityScore = query.maxSim
          /\ result'.noveltyScore = query.novelty
          /\ result'.assessmentTitle \in
                 {"<remote title>", "undefined", BandTitle(query.maxSim)}]_vars

(* C3: a row whose embedding fails is skipped and the loop continues: every *)
(* step of the loader taken while a row's embedding is awaited moves on to  *)
(* the next row or publishes the index and makes it ready, and a ready      *)
(* index holds only rows of the corpus, in input order.  Violated by the    *)
(* App revision, whose loop has no try around the embedder call.            *)
C3_RowFailureSkipped ==
    [][(load.pc = "row" /\ load' # load) =>
          /\ load'.i = load.i + 1
          /\ load'.rows = load.rows
          /\ \/ load'.pc = "row"
             \/ load'.pc = "done" /\ isReady' /\ databaseRef' = load'.indexedItems
          /\ \/ load'.indexedItems = load.indexedItems
             \/ /\ Len(load'.indexedItems) = Len(load.indexedItems) + 1
                /\ SubSeq(load'.indexedItems, 1, Len(load.indexedItems)) = load.indexedItems
                /\ load'.indexedItems[Len(load'.indexedItems)].pitch = load.text]_vars

(* C4: handleAnalyze with a pitch shorter than 15 characters (the empty one *)
(* included) is rejected as invalid input without calling the embedder and  *)
(* leaves isAnalyzing, result and the index as they were; a pitch of        *)
(* exactly 15 characters is not rejected.  On every step taken while the    *)
(* button is enabled: with a short pitch no query starts, and a step that   *)
(* alerts shows the invalid-input alert and changes nothing else; with a    *)
(* pitch of 15 characters a step that alerts never shows that alert.        *)
C4_ShortPitchRejected ==
    [][~isAnalyzing =>
          /\ Len(pitch) < 15 =>
                /\ query' = query
                /\ isAnalyzing' = isAnalyzing
                /\ alerts' # alerts =>
                      /\ alerts' \in InvalidInputAlerts
                      /\ result' = result
                      /\ databaseRef' = databaseRef /\ corpusPoints' = corpusPoints
                      /\ load' = load
          /\ (Len(pitch) = 15 /\ alerts' # alerts) =>
                alerts' \notin InvalidInputAlerts]_vars

\* a 14-character pitch was rejected while an earlier result was on display
C4_Witness ==
    /\ Len(pitch) = 14
    /\ alerts \in InvalidInputAlerts
    /\ result # NULL
    /\ ~isAnalyzing

(* C5: when the embedder call for the query text fails, the query ends in   *)
(* an explicit failure and no result is set: a query leaves its embedding   *)
(* stage either with no alert and a result (or its assessment pending), or  *)
(* with the analysis-error alert, no result and the in-flight flag cleared; *)
(* and an analysis-error alert is never accompanied by a result.            *)
C5_QueryEmbedFailureReported ==
    [][/\ (query.pc = "embed" /\ query'.pc # "embed") =>
             \/ /\ alerts' = "none"
                /\ result' # NULL \/ query'.pc = "assess"
             \/ /\ alerts' \in AnalysisErrorAlerts
                /\ result' = NULL
                /\ query'.pc = "idle"
                /\ ~isAnalyzing'
       /\ alerts' \in AnalysisErrorAlerts => result' = NULL]_vars

\* Inline with the pipeline stored: only a failed query embedding alerts so
C5_Witness ==
    /\ rev = "Inline"
    /\ extractorRef
    /\ isReady
    /\ alerts \in AnalysisErrorAlerts
    /\ result = NULL
    /\ ~isAnalyzing

(* C6: isReady is true only after every row has been attempted by the loop  *)
(* and the full list of entries has been published to databaseRef.          *)
C6_ReadyOnlyAfterAllRows ==
    isReady =>
        /\ load.pc = "done"
        /\ load.i = Len(load.rows)
        /\ databaseRef = load.indexedItems
        /\ Len(databaseRef) <= Len(load.rows)
        /\ rev = "App" => Len(databaseRef) = Len(load.rows)

\* a ready index of two entries
C6_Witness == isReady /\ Len(databaseRef) >= 2

(* C7: once the index is ready its contents never change: no step taken in  *)
(* a ready state changes databaseRef or makes the index not ready.          *)
C7_IndexReadOnlyOnceReady ==
    [][isReady => (isReady' /\ databaseRef' = databaseRef)]_vars

\* a ready, non-empty index with a result shown and a screenshot under way
C7_Witness == isReady /\ databaseRef # <<>> /\ result # NULL /\ isCapturing

(* C8, as claimed: the similarity a query arrives at equals the maximum of  *)
(* cosineSimilarity(query, entry) over all entries of a non-empty corpus.   *)
C8_SimilarityIsMaxCosine ==
    [][(ScanStep /\ databaseRef # <<>>) =>
          ScannedSim = Largest(Cosines(databaseRef, Embed(query.pitch)))]_vars

(* C8, amended: the similarity a query arrives at equals the maximum of 0   *)
(* and cosineSimilarity(query, entry) over all entries, every entry scanned.*)
C8_SimilarityIsMaxCosineOrZero ==
    [][ScanStep =>
          ScannedSim = Largest(Cosines(databaseRef, Embed(query.pitch)) \cup {Num(0)})]_vars

\* the pitch of c's (the only one placed at x = -100) scored 0 against an
\* index whose every entry has a negative cosine with it
C8_Witness ==
    /\ result # NULL
    /\ result.x = Num(-100)
    /\ result.localSimilarityScore = Num(0)
    /\ databaseRef # <<>>
    /\ \A k \in 1..Len(databaseRef) :
           cosineSimilarity(Embed(Rep("c", 15)), databaseRef[k].embedding).num < 0

(* C9: every result has noveltyScore = clamp(round((1 - maxSimilarity)*10), *)
(* 1, 10): an integer k in 1..10 with (1 - s) * 10 >= k - 1/2 unless k = 1  *)
(* and (1 - s) * 10 < k + 1/2 unless k = 10; s = 1 gives 1.                 *)
C9_NoveltyFormula ==
    result # NULL =>
        LET s == result.localSimilarityScore
            k == result.noveltyScore
            twice == 20 * (s.den - s.num)
        IN  /\ k \in 1..10
            /\ k > 1 => twice >= (2 * k - 1) * s.den
            /\ k < 10 => twice < (2 * k + 1) * s.den
            /\ s = Num(1) => k = 1

\* a result of similarity 1 and novelty 1
C9_Witness ==
    /\ result # NULL
    /\ result.localSimilarityScore = Num(1)
    /\ result.noveltyScore = 1

(* C10: a query against a ready index with zero entries arrives at          *)
(* maxSimilarity 0 and noveltyScore 10, in its result and, while the        *)
(* assessment is awaited, in the values it will put there.                  *)
C10_EmptyIndexQuery ==
    (isReady /\ databaseRef = <<>>) =>
        /\ result # NULL =>
              /\ result.localSimilarityScore = Num(0)
              /\ result.noveltyScore = 10
        /\ query.pc = "assess" =>
              /\ query.maxSim = Num(0)
              /\ query.novelty = 10

\* a result produced against a ready, empty index
C10_Witness == isReady /\ databaseRef = <<>> /\ result # NULL /\ alerts = "none"

----------------------------------------------------------------------------
(* C11: ingestion indexes exactly the valid texts: the embedder is never    *)
(* called for a text below the minimum length (more than 5 characters are   *)
(* required), no such text is indexed, and the header line is never         *)
(* indexed.  Violated: the length filter reads the raw line, quotes         *)
(* included, and the quotes are stripped only afterwards.                   *)
C11_OnlyValidTextsEmbedded ==
    /\ load.pc = "row" => Len(load.text) > 5
    /\ \A k \in 1..Len(load.indexedItems) :
           /\ Len(load.indexedItems[k].pitch) > 5
           /\ load.indexedItems[k].pitch # Header

(* C12: the local fallback titles every similarity by the banded rule       *)
(* table (above 0.8 "Highly Saturated", below 0.4 "High Innovation Area",   *)
(* otherwise "Moderate Novelty"), and this is the title used when the       *)
(* remote generator is unavailable or errors: every result whose title is   *)
(* not the remote generator's carries the title of its similarity's band.   *)
(* Violated: the catch of getDetailedAssessment has another table.          *)
C12_LocalTitleByBand ==
    (result # NULL /\ result.assessmentTitle \notin {"<remote title>", "undefined"}) =>
        result.assessmentTitle = BandTitle(result.localSimilarityScore)

(* C13: when the registry cannot be fetched (the fetch rejects, the         *)
(* response is not ok, or its text cannot be read) ingestion falls back to  *)
(* the embedded list and still becomes ready: no step taken while the file  *)
(* is being fetched ends the load in failure.  Violated: the App revision   *)
(* throws into the outer catch and has no embedded list.                    *)
C13_FetchFailureFallsBack ==
    [][load.pc \in {"fetch", "text"} => load'.pc # "failed"]_vars


(* C14: getPositionFromVector returns, for a vector of every length (0, 1 and
   odd lengths included), a point whose x and y are both numbers (not NaN,
   not infinite) within [-100, 100]. *)
InDisplayRange(r) ==
    /\ r.den > 0
    /\ -ClampLimit * r.den <= r.num
    /\ r.num <= ClampLimit * r.den

C14_PositionInRange ==
    calc.op = "getPositionFromVector" =>
        InDisplayRange(calc.pos.x) /\ InDisplayRange(calc.pos.y)

(* C15: cosineSimilarity(a, b) is exactly 0, not NaN, whenever a or b has
   zero magnitude, both being zero included. *)
ZeroVector(v) == \A k \in 1..Len(v) : v[k] = 0

C15_ZeroMagnitudeGivesZero ==
    (calc.op = "cosineSimilarity" /\ (ZeroVector(calc.a) \/ ZeroVector(calc.b))) =>
        calc.sim = Num(0)

C15_Witness ==
    /\ calc.op = "cosineSimilarity"
    /\ Len(calc.a) >= 2
    /\ ZeroVector(calc.a) /\ ZeroVector(calc.b)
    /\ calc.sim = Num(0)

\* (sum / n) * 400 clamped to [-100, 100], for a sum in units of 1 / Scale and
\* a divisor n >= 0, with the IEEE results of a division by 0
ScaledMean(sum, n) ==
    IF n = 0 THEN (IF sum = 0 THEN NaN ELSE Num(Sign(sum) * ClampLimit))
    ELSE IF sum * Gain > ClampLimit * Scale * n THEN Num(ClampLimit)
    ELSE IF sum * Gain < -ClampLimit * Scale * n THEN Num(-ClampLimit)
    ELSE Div(sum * Gain, Scale * n)

FirstHalfSum(v) == SumRange(v, 0, Len(v) \div 2)

SecondHalfSum(v) == SumRange(v, Len(v) \div 2, Len(v))

(* C18 as stated: for a vector of D >= 2 components, x comes from the mean of
   the first floor(D/2) components and y from the mean of the remaining
   D - floor(D/2) components, each sum divided by its own half's length,
   then multiplied by the gain and clamped; for odd D as for even D. *)
C18_EachHalfByOwnLength ==
    (calc.op = "getPositionFromVector" /\ Len(calc.a) >= 2) =>
        /\ calc.pos.x = ScaledMean(FirstHalfSum(calc.a), Len(calc.a) \div 2)
        /\ calc.pos.y = ScaledMean(SecondHalfSum(calc.a),
                                   Len(calc.a) - Len(calc.a) \div 2)

(* C18 amended: for a vector of every length D, x comes from the sum of the
   first floor(D/2) components and y from the sum of the remaining
   D - floor(D/2) components, BOTH divided by floor(D/2), then multiplied by
   the gain and clamped; a division by floor(D/2) = 0 gives NaN for a zero
   sum and the clamp bound of the sum's sign otherwise. *)
C18_BothHalvesByFloorHalf ==
    calc.op = "getPositionFromVector" =>
        /\ calc.pos.x = ScaledMean(FirstHalfSum(calc.a), Len(calc.a) \div 2)
        /\ calc.pos.y = ScaledMean(SecondHalfSum(calc.a), Len(calc.a) \div 2)

C18_Witness ==
    /\ calc.op = "getPositionFromVector"
    /\ calc.a = <<1, 1, 0>>
    /\ calc.pos = [x |-> Num(80), y |-> Num(80)]

\* the position and novelty a scan step has just computed
ScannedOutcome ==
    IF query'.pc = "assess"
    THEN [x |-> query'.userPos.x, y |-> query'.userPos.y, novelty |-> query'.novelty]
    ELSE [x |-> result'.x, y |-> result'.y, novelty |-> result'.noveltyScore]

\* the position and novelty of the recorded scan
RecordedOutcome == [x |-> prev.x, y |-> prev.y, novelty |-> prev.novelty]

(* C16: two runs of handleAnalyze with the same pitch text against an
   unchanged index give the same position (x, y) and the same noveltyScore,
   whatever was queried in between, whatever the previous result, and
   whatever the assessment step returns: a scan computes what the scan before
   it computed when that one was of the same text over the same index (the
   two having different queries and results before them), and the result
   published after the assessment carries the scan's position and novelty
   unchanged. *)
C16_QueryDeterministic ==
    [][/\ (/\ ScanStep
           /\ prev.novelty # 0
           /\ prev.db = databaseRef
           /\ prev.pitch = query.pitch)
          => ScannedOutcome = RecordedOutcome
       /\ (query.pc = "assess" /\ result' # NULL)
          => /\ result'.x = query.userPos.x
             /\ result'.y = query.userPos.y
             /\ result'.noveltyScore = query.novelty]_vars

\* a text was scanned twice in a row over the same non-empty index, and the
\* second run's result is on display
C16_Witness ==
    /\ prev.again
    /\ prev.db # <<>> /\ prev.db = databaseRef
    /\ result # NULL
    /\ [x |-> result.x, y |-> result.y, novelty |-> result.noveltyScore] = RecordedOutcome

\* the embedder call for the last row returns in this step: the last row has
\* been attempted
LastRowAttempted == load.pc = "row" /\ load.i = Len(load.rows) - 1 /\ load' # load

(* C17: the indexing percentage published during the loop never decreases
   from one update to the next, stays within 0..100, and reaches 100 when
   the last row has been attempted, also when the row's embedding failed. *)
C17_ProgressMonotoneTo100 ==
    [][/\ load'.pct >= load.pct
       /\ load'.pct # -1 => load'.pct \in 0..100
       /\ LastRowAttempted => load'.pct = 100]_vars

\* the parts of C17 on their own
C17_ProgressMonotoneInRange ==
    [][/\ load'.pct >= load.pct
       /\ load'.pct # -1 => load'.pct \in 0..100]_vars

C17_InlineReaches100 ==
    [][(rev = "Inline" /\ LastRowAttempted) => load'.pct = 100]_vars

\* a call of handleAnalyze has passed its length check and not yet left its finally
InFlight == query.pc # "idle"

(* C19: isAnalyzing is true from the moment an accepted query starts until it
   finishes; result is null throughout that interval; every started query
   eventually sets isAnalyzing back to false, whether its awaited calls
   succeed or throw; and no second query starts while one is in flight: the
   running call keeps its text and never returns to an earlier stage. *)
C19_InFlightLifecycle ==
    /\ [](isAnalyzing <=> InFlight)
    /\ [](isAnalyzing => result = NULL)
    /\ [][(InFlight /\ query'.pc # "idle") =>
              /\ query'.pitch = query.pitch
              /\ query.pc = "assess" => query'.pc = "assess"]_vars
    /\ (isAnalyzing ~> ~isAnalyzing)

\* a second query of the same text awaits its assessment after the first one
\* finished, the text box having been edited meanwhile
C19_Witness ==
    /\ isAnalyzing
    /\ query.pc = "assess"
    /\ result = NULL
    /\ prev.again
    /\ pitch # query.pitch

\* the row index in a point's id `item-${i}`
RowOfPoint(point) == point.id[2]

(* C20: whenever the system is ready, corpusPoints and databaseRef have the
   same length and the i-th point has the same (x, y) as the i-th index
   entry, every point id is unique, and no point exists for a row whose
   embedding was skipped; before readiness both are empty. *)
C20_PointsMatchIndex ==
    /\ ~isReady => (corpusPoints = <<>> /\ databaseRef = <<>>)
    /\ isReady =>
           /\ Len(corpusPoints) = Len(databaseRef)
           /\ \A k \in 1..Len(corpusPoints) :
                  /\ corpusPoints[k].x = databaseRef[k].x
                  /\ corpusPoints[k].y = databaseRef[k].y
                  /\ RowOfPoint(corpusPoints[k]) \notin load.skipped
           /\ \A j, k \in 1..Len(corpusPoints) :
                  j # k => corpusPoints[j].id # corpusPoints[k].id

\* the index is published with two entries after one row was skipped
C20_Witness ==
    /\ isReady
    /\ load.skipped # {}
    /\ Len(databaseRef) = 2
    /\ Len(corpusPoints) = 2
    /\ corpusPoints[1].x # corpusPoints[2].x

====
